---- MODULE Spec2Model ----
(***************************************************************************)
(* A model of the Kleerer pass (src/src/Kleerer.cpp): Kleerer::run walks   *)
(* the list of initial functions and, for each one that the call graph     *)
(* says calls __assert_fail, Kleerer::writeMain appends a "main" harness   *)
(* to the module, writes the module to <module-id>.main.<function>.o and   *)
(* erases the harness again.                                               *)
(*                                                                         *)
(* The module M is the pair (funs, globals).  The call graph, the list of  *)
(* initial functions and the signatures are inputs fixed by Init.  The     *)
(* result of opening the output file and the verdict of the verifier pass  *)
(* are inputs of each writeMain call.                                      *)
(***************************************************************************)
EXTENDS Integers, Sequences, FiniteSets, TLC

VARIABLES
  funs,       \* M's function list: loaded functions, then live scaffolding
  globals,    \* M's global variable list
  calls,      \* CG.calls: function name -> sequence of callee names
  initFuns,   \* getInitFuns(M): [present, list]
  pc,         \* "start", "loop", "returned", "aborted"
  i,          \* position of Kleerer::run's loop in initFuns.list
  done,       \* Kleerer::done
  loaded,     \* history: M as it was loaded, [funs, globals]
  invoked,    \* history: the calls of writeMain, [idx, cand]
  written,    \* the files written by WriteBitcodeToFile, in order
  errs,       \* what was printed to errs(), in order, with the loop position
  exec        \* the last execution of a written harness

vars ==
  <<funs, globals, calls, initFuns, pc, i, done, loaded, invoked, written, errs, exec>>

----------------------------------------------------------------------------
(* Bounds of the model *)

MaxCands == 2
MaxParams == 2
MaxStateVars == 2

(* Constants of the program and of its target *)

ArrSize == 4000
GepIndex == 2000
UnsizedSize == 100
PointerSize == 8
IntBits == 32
IntPtrBits == 64

ModuleId == "m.bc"
AssertFail == "__assert_fail"
StatePrefix == "__ai_state_"
voidPtrType == "i8*"
intType == "i32"
uintType == "i32"

\* x as an unsigned of the given width.  TLC's integers end at 2^31 - 1,
\* and every size computed here is below that, so a width of 32 or 64 bits
\* leaves it as it is.
Unsigned(x, bits) == IF bits >= 31 THEN x ELSE x % (2 ^ bits)

\* An int is kept as its signed value, -2^31 .. 2^31 - 1, and added in two
\* halves so that the sum wraps as the machine's does.
Half == 2 ^ (IntBits \div 2)
Add32(x, y) ==
  LET lo == (x % Half) + (y % Half)
      hi == (((x \div Half) % Half) + ((y \div Half) % Half) + (lo \div Half)) % Half
  IN  (IF hi >= Half \div 2 THEN hi - Half ELSE hi) * Half + (lo % Half)

----------------------------------------------------------------------------
(* Types.  A type is its LLVM spelling; a pointer type ends in "*". *)

IsPointerTy(t) == Len(t) > 1 /\ SubSeq(t, Len(t), Len(t)) = "*"
ElementType(t) == SubSeq(t, 1, Len(t) - 1)
PointerTo(t) == t \o "*"
IsIntegerTy(t) == t \in {"i8", "i32", "i64"}
IsFunctionTy(t) == t = "void ()"
IsStructTy(t) == t \in {"%struct.S", "%opaque"}
IsSized(t) == t \notin {"%opaque", "void ()"}

\* TargetData of a 64-bit target; %struct.S is { i32, i32, i32 }
StructLayoutSize(t) == 12
TypeAllocSize(t) ==
  CASE t = "i8" -> 1
    [] t = "i32" -> 4
    [] t = "i64" -> 8
    [] t = "float" -> 4
    [] IsPointerTy(t) -> PointerSize
    [] OTHER -> StructLayoutSize(t)

getTypeSize(t) ==
  IF IsFunctionTy(t) THEN PointerSize
  ELSE IF ~IsSized(t) THEN UnsizedSize
  ELSE IF IsStructTy(t) THEN StructLayoutSize(t)
  ELSE TypeAllocSize(t)

----------------------------------------------------------------------------
(* Instructions, globals and functions *)

\* op: the opcode; arg: the parameter the value belongs to (0: none);
\* who: the global or callee named; ty: a type; n: a number of bytes, an
\* immediate or an argument count
Ins(op, arg, who, ty, n) == [op |-> op, arg |-> arg, who |-> who, ty |-> ty, n |-> n]

Global(name, hasInit, init, str) ==
  [name |-> name, hasInit |-> hasInit, init |-> init, str |-> str]

Fun(name, kind, owner, params, varArg) ==
  [name |-> name, kind |-> kind, owner |-> owner, params |-> params,
   varArg |-> varArg, entry |-> <<>>, final |-> <<>>, assertBB |-> <<>>,
   args |-> <<>>]

startswith(s, p) == Len(s) >= Len(p) /\ SubSeq(s, 1, Len(p)) = p
hasName(g) == g.name # ""
IsStateVar(g) == hasName(g) /\ startswith(g.name, StatePrefix)
isDeclaration(g) == ~g.hasInit

getFunction(fs, name) == {k \in 1..Len(fs) : fs[k].name = name}
FunNamed(fs, name) == fs[CHOOSE k \in getFunction(fs, name) : TRUE]

----------------------------------------------------------------------------
(* Signature validation *)

\* a check that lets a variadic callee take any number of arguments
checkAnyCountIfVarArg(FTyParams, isVarArg, Args) ==
  /\ (Len(Args) = Len(FTyParams) \/ isVarArg)
  /\ \A k \in 1..Len(Args) : k > Len(FTyParams) \/ FTyParams[k] = Args[k]

\* check(): the two asserts; TRUE means neither fires
check(FTyParams, isVarArg, Args) ==
  /\ \/ Len(Args) = Len(FTyParams)
     \/ (isVarArg /\ Len(Args) > Len(FTyParams))
  /\ \A k \in 1..Len(Args) : k > Len(FTyParams) \/ FTyParams[k] = Args[k]

ArgTypes(args) == [k \in 1..Len(args) |-> args[k].ty]
ParamTypesOf(params) == [k \in 1..Len(params) |-> params[k].ty]

\* void klee_make_symbolic(void *, unsigned, const char *)
KleeParams == <<voidPtrType, uintType, "i8*">>

----------------------------------------------------------------------------
(* Building the harness *)

\* getGlobalString: a new unnamed private global holding str
getGlobalString(gs, str) == Append(gs, Global("", TRUE, 0, str))

\* Kleerer::createMalloc with arraySize = ArrSize: the malloc call that
\* CallInst::CreateMalloc inserts, and the cast of its result to type*
createMalloc(k, type) ==
  <<Ins("malloc", k, "", type, Unsigned(ArrSize * getTypeSize(type), IntPtrBits))>>
  \o (IF PointerTo(type) # voidPtrType
      THEN <<Ins("bitcast", k, "", PointerTo(type), 0)>> ELSE <<>>)

\* the size operand of klee_make_symbolic, an unsigned
SymbolicSize(type, hasArraySize) ==
  IF hasArraySize THEN Unsigned(ArrSize * getTypeSize(type), IntBits)
  ELSE Unsigned(getTypeSize(type), IntBits)

\* Kleerer::call_klee_make_symbolic: what it appends to BB and the call it
\* returns, which every caller appends next
call_klee_make_symbolic(k, name, type, addrTy, hasArraySize) ==
  (IF addrTy # voidPtrType THEN <<Ins("bitcast", k, name, voidPtrType, 0)>> ELSE <<>>)
  \o (IF hasArraySize
      THEN <<Ins("mul", k, name, uintType, SymbolicSize(type, TRUE))>> ELSE <<>>)
  \o <<Ins("mark", k, name, type, SymbolicSize(type, hasArraySize))>>

\* the type of the pointer the getelementptr indexes: the malloc result,
\* cast to void * unless it is one already
GepOperandTy(type) == IF type # voidPtrType THEN voidPtrType ELSE type

\* the byte offset of getelementptr inbounds p, i64 GepIndex
GepOffset(type) == GepIndex * TypeAllocSize(ElementType(GepOperandTy(type)))

ParamTag(param) == IF param.name # "" THEN param.name ELSE "noname"

PointerParam(param, k) ==
  LET type == param.ty
      elem == ElementType(type)
      cast == type # voidPtrType
  IN  createMalloc(k, elem)
      \o call_klee_make_symbolic(k, ParamTag(param), elem, PointerTo(elem), TRUE)
      \o (IF cast THEN <<Ins("bitcast", k, "", voidPtrType, 0)>> ELSE <<>>)
      \o <<Ins("gep", k, "", GepOperandTy(type), GepOffset(type))>>
      \o (IF cast THEN <<Ins("bitcast", k, "", type, 0)>> ELSE <<>>)

IntegerParam(param, k) ==
  call_klee_make_symbolic(k, ParamTag(param), param.ty, PointerTo(param.ty), FALSE)
  \o <<Ins("load", k, "", param.ty, 0)>>

\* one iteration of writeMain's loop over F's parameters
ParamStep(param, k, st) ==
  LET gs == getGlobalString(st.globals, ParamTag(param))
  IN  IF IsPointerTy(param.ty)
      THEN [entry |-> st.entry \o PointerParam(param, k),
            args |-> Append(st.args, [arg |-> k, ty |-> param.ty]),
            globals |-> gs]
      ELSE IF IsIntegerTy(param.ty)
      THEN [entry |-> <<Ins("alloca", k, "", param.ty, 0)>> \o st.entry
                       \o IntegerParam(param, k),
            args |-> Append(st.args, [arg |-> k, ty |-> param.ty]),
            globals |-> gs]
      ELSE [st EXCEPT !.globals = gs]

RECURSIVE ParamLoop(_, _, _)
ParamLoop(params, k, st) ==
  IF k > Len(params) THEN st
  ELSE ParamLoop(params, k + 1, ParamStep(params[k], k, st))

\* an iteration that stores the zero before it marks the variable
AiStateStepStoreFirst(j, st) ==
  LET GV == st.globals[j]
  IN  IF ~hasName(GV) \/ ~startswith(GV.name, StatePrefix) THEN st
      ELSE [entry |-> st.entry
                      \o <<Ins("store volatile", 0, GV.name, intType, 0)>>
                      \o call_klee_make_symbolic(0, GV.name, intType,
                                                 PointerTo(intType), FALSE),
            globals |-> getGlobalString(
                          [st.globals EXCEPT ![j].hasInit = TRUE, ![j].init = 0],
                          GV.name)]

\* one iteration of makeAiStateSymbolic's loop, on global j
AiStateStep(j, st) ==
  LET GV == st.globals[j]
  IN  IF ~hasName(GV) \/ ~startswith(GV.name, StatePrefix) THEN st
      ELSE [entry |-> st.entry
                      \o call_klee_make_symbolic(0, GV.name, intType,
                                                 PointerTo(intType), FALSE)
                      \o <<Ins("store volatile", 0, GV.name, intType, 0)>>,
            globals |-> getGlobalString(
                          [st.globals EXCEPT ![j].hasInit = TRUE, ![j].init = 0],
                          GV.name)]

\* Kleerer::makeAiStateSymbolic: the loop runs to the end of the list as
\* it is when the iterator gets there
RECURSIVE makeAiStateSymbolic(_, _)
makeAiStateSymbolic(j, st) ==
  IF j > Len(st.globals) THEN st
  ELSE makeAiStateSymbolic(j + 1, AiStateStep(j, st))

\* Kleerer::addGlobals
addGlobals(gs) ==
  [j \in 1..Len(gs) |->
     IF ~isDeclaration(gs[j]) \/ gs[j].hasInit THEN gs[j]
     ELSE [gs[j] EXCEPT !.hasInit = TRUE, !.init = 0]]

\* a loop that leaves after the first state variable
RECURSIVE SumLoopFirstOnly(_, _)
SumLoopFirstOnly(gs, j) ==
  IF j > Len(gs) THEN <<>>
  ELSE IF ~hasName(gs[j]) \/ ~startswith(gs[j].name, StatePrefix)
       THEN SumLoopFirstOnly(gs, j + 1)
       ELSE <<Ins("load volatile", 0, gs[j].name, intType, 0),
              Ins("add", 0, "", intType, 0)>>

\* the loads and adds of checkAiState's loop
RECURSIVE SumLoop(_, _)
SumLoop(gs, j) ==
  IF j > Len(gs) THEN <<>>
  ELSE (IF ~hasName(gs[j]) \/ ~startswith(gs[j].name, StatePrefix) THEN <<>>
        ELSE <<Ins("load volatile", 0, gs[j].name, intType, 0),
               Ins("add", 0, "", intType, 0)>>)
       \o SumLoop(gs, j + 1)

\* Kleerer::checkAiState, and the return writeMain puts in the final block
checkAiState(entry, gs) ==
  LET g1 == getGlobalString(gs, "leaving function with lock held")
      g2 == getGlobalString(g1, "n/a")
      g3 == getGlobalString(g2, "main")
  IN  [entry |-> entry \o SumLoop(g3, 1)
                  \o <<Ins("icmp", 0, "", intType, 0), Ins("br", 0, "", "", 0)>>,
       final |-> <<Ins("ret", 0, "", intType, 0)>>,
       assertBB |-> <<Ins("call", 0, AssertFail, "", 4),
                      Ins("unreachable", 0, "", "", 0)>>,
       globals |-> g3]

----------------------------------------------------------------------------
(* Kleerer::writeMain *)

\* a file name that leaves the function out
ArtifactNameOfModule(F) == ModuleId \o ".main.o"

ArtifactName(F) == ModuleId \o ".main." \o F \o ".o"

\* the name the module's symbol table gives a new function called base
FreshName(fs, base) ==
  IF getFunction(fs, base) = {} THEN base
  ELSE base \o ToString(CHOOSE n \in 1..(Len(fs) + 1) :
                          /\ getFunction(fs, base \o ToString(n)) = {}
                          /\ \A m \in 1..(n - 1) :
                               getFunction(fs, base \o ToString(m)) # {})

\* a writeMain that sets done once the file is written
DoneSetAfterWrite(d) == TRUE

\* the assignment to done at the end of writeMain is commented out
DoneAfterWrite(d) == d

\* eraseFromParent of the two functions this call created
EraseScaffolding(fs, idx, mainName, kleeName) ==
  SelectSeq(fs, LAMBDA f : ~(f.owner = idx /\ f.name \in {mainName, kleeName}))

\* createVerifierPass() is created with its default failure action, which
\* aborts the process when the module is broken
VerifierAborts(verifyOk) == ~verifyOk

\* writeMain(F) called at loop position idx on the module (fs, gs); ioOk:
\* the output file could be opened; verifyOk: the verifier accepts.
\* The result is the module afterwards, what was written and printed, the
\* new value of done, and whether the process aborted.
writeMain(F, idx, fs, gs, d, ioOk, verifyOk) ==
  LET name == ArtifactName(F)
      Fn == FunNamed(fs, F)
      mainName == FreshName(fs, "main")
      mainFun == Fun(mainName, "entry", idx, <<>>, FALSE)
      fs1 == Append(fs, mainFun)
      kleeName == FreshName(fs1, "klee_make_symbolic")
      klee == Fun(kleeName, "primitive", idx,
                  [k \in 1..3 |-> [ty |-> KleeParams[k], name |-> ""]], FALSE)
      fs2 == Append(fs1, klee)
      p == ParamLoop(Fn.params, 1, [entry |-> <<>>, args |-> <<>>, globals |-> gs])
      a == makeAiStateSymbolic(1, [entry |-> p.entry, globals |-> p.globals])
      gs1 == addGlobals(a.globals)
      sigOk == check(ParamTypesOf(Fn.params), Fn.varArg, ArgTypes(p.args))
      c == checkAiState(Append(a.entry, Ins("call", 0, F, "", Len(p.args))), gs1)
      built == [mainFun EXCEPT !.entry = c.entry, !.final = c.final,
                               !.assertBB = c.assertBB, !.args = p.args]
      fs3 == [fs2 EXCEPT ![Len(fs1)] = built]
  IN  IF ~sigOk
      THEN [funs |-> [fs2 EXCEPT ![Len(fs1)].entry = a.entry,
                                 ![Len(fs1)].args = p.args],
            globals |-> gs1, written |-> <<>>, errs |-> <<>>,
            done |-> d, abort |-> TRUE]
      ELSE IF ~ioOk
      THEN [funs |-> fs3, globals |-> c.globals, written |-> <<>>,
            errs |-> <<[idx |-> idx, msg |-> "cannot write", name |-> name]>>,
            done |-> d, abort |-> FALSE]
      ELSE IF VerifierAborts(verifyOk)
      THEN [funs |-> fs3, globals |-> c.globals, written |-> <<>>,
            errs |-> <<[idx |-> idx, msg |-> "broken module", name |-> name]>>,
            done |-> d, abort |-> TRUE]
      ELSE [funs |-> EraseScaffolding(fs3, idx, mainName, kleeName),
            globals |-> c.globals,
            written |-> <<[idx |-> idx, cand |-> F, name |-> name,
                           funs |-> fs3, globals |-> c.globals]>>,
            errs |-> <<[idx |-> idx, msg |-> "written", name |-> name]>>,
            done |-> DoneAfterWrite(d), abort |-> FALSE]

----------------------------------------------------------------------------
(* Executing a written harness: the semantics of the generated main *)

NamedGlobals(gs) == {gs[j].name : j \in {k \in 1..Len(gs) : hasName(gs[k])}}
StateVarNames(gs) == {gs[j].name : j \in {k \in 1..Len(gs) : IsStateVar(gs[k])}}
GlobalNamed(gs, name) == gs[CHOOSE j \in 1..Len(gs) : gs[j].name = name]

\* memory when the program starts: every global holds its initializer
InitialMemory(gs) == [name \in NamedGlobals(gs) |-> GlobalNamed(gs, name).init]

\* the globals with no initializer: their contents are not known
Undefined(gs) == {name \in NamedGlobals(gs) : ~GlobalNamed(gs, name).hasInit}

\* one instruction of the entry block; st.symb: the globals whose contents
\* are unconstrained; post: the state variables as the candidate leaves them
ExecIns(ins, st, cand, post) ==
  CASE ins.op = "mark" /\ ins.arg = 0 -> [st EXCEPT !.symb = @ \cup {ins.who}]
    [] ins.op = "store volatile" ->
         [st EXCEPT !.mem[ins.who] = ins.n, !.symb = @ \ {ins.who}]
    [] ins.op = "call" /\ ins.who = cand ->
         [st EXCEPT !.atCall = [v \in DOMAIN post |-> st.mem[v]],
                    !.symbAtCall = st.symb \cap DOMAIN post,
                    !.mem = [v \in DOMAIN st.mem |->
                               IF v \in DOMAIN post THEN post[v] ELSE st.mem[v]],
                    !.symb = @ \ DOMAIN post]
    [] ins.op = "load volatile" -> [st EXCEPT !.last = st.mem[ins.who]]
    [] ins.op = "add" -> [st EXCEPT !.sum = Add32(st.last, st.sum)]
    [] ins.op = "icmp" -> [st EXCEPT !.isZero = (st.sum = ins.n)]
    [] ins.op = "br" ->
         [st EXCEPT !.outcome = IF st.isZero THEN "return 0" ELSE AssertFail]
    [] OTHER -> st

RECURSIVE ExecBlock(_, _, _, _, _)
ExecBlock(block, k, st, cand, post) ==
  IF k > Len(block) THEN st
  ELSE ExecBlock(block, k + 1, ExecIns(block[k], st, cand, post), cand, post)

\* the harness an artifact was written for
HarnessOf(art) ==
  art.funs[CHOOSE k \in 1..Len(art.funs) :
             art.funs[k].kind = "entry" /\ art.funs[k].owner = art.idx]

NoExec ==
  [art |-> 0, atCall |-> [v \in {} |-> 0], symbAtCall |-> {},
   post |-> [v \in {} |-> 0], sum |-> 0, outcome |-> "none"]

Execute(a, art, post) ==
  LET st == ExecBlock(HarnessOf(art).entry, 1,
                      [mem |-> InitialMemory(art.globals),
                       symb |-> Undefined(art.globals), last |-> 0, sum |-> 0,
                       isZero |-> FALSE, outcome |-> "none",
                       atCall |-> [v \in {} |-> 0], symbAtCall |-> {}],
                      art.cand, post)
  IN  [art |-> a, atCall |-> st.atCall, symbAtCall |-> st.symbAtCall,
       post |-> post, sum |-> st.sum, outcome |-> st.outcome]

----------------------------------------------------------------------------
(* Inputs *)

Cands == {"A", "B"}
StateInits == {0, 7}
PostVals == {0, 1, -1}
CallLists ==
  {<<>>, <<"h">>, <<AssertFail>>, <<"h", AssertFail>>, <<AssertFail, AssertFail>>}
ParamTypes == {"i8*", "i32*", "%struct.S*", "%opaque*", "void ()*", "i32", "float"}
ParamChoices ==
  {[ty |-> t, name |-> "p"] : t \in ParamTypes} \cup {[ty |-> "i32", name |-> ""]}
RunSigs == {<<[ty |-> "i32*", name |-> "p"]>>, <<[ty |-> "float", name |-> "x"]>>}

SeqsUpTo(S, n) == UNION {[1..m -> S] : m \in 0..n}

StateVarName(k) == StatePrefix \o ToString(k)

AssertFailParams ==
  [k \in 1..4 |-> [ty |-> <<"i8*", "i8*", uintType, "i8*">>[k], name |-> ""]]

LoadedFuns(sigA, vaA, sigB, vaB, hasAF) ==
  <<Fun("A", "defined", 0, sigA, vaA), Fun("B", "defined", 0, sigB, vaB),
    Fun("h", "defined", 0, <<>>, FALSE)>>
  \o (IF hasAF THEN <<Fun(AssertFail, "declared", 0, AssertFailParams, FALSE)>>
      ELSE <<>>)

LoadedGlobals(inits) ==
  [k \in 1..Len(inits) |-> Global(StateVarName(k), TRUE, inits[k], "")]
  \o <<Global("ext", FALSE, 0, ""), Global("__ai_stateless", TRUE, 3, "")>>

Mentions(list, f) == \E k \in 1..Len(list) : list[k] = f

InitRest ==
  /\ pc = "start"
  /\ i = 0
  /\ done = FALSE
  /\ loaded = [funs |-> funs, globals |-> globals]
  /\ invoked = <<>>
  /\ written = <<>>
  /\ errs = <<>>
  /\ exec = NoExec

\* runs over call graphs and candidate lists
Init ==
  /\ \E hasAF \in BOOLEAN, cA \in CallLists, cB \in CallLists,
        cH \in {<<>>, <<AssertFail>>}, sA \in RunSigs, sB \in RunSigs :
       /\ hasAF \/ ~(Mentions(cA, AssertFail) \/ Mentions(cB, AssertFail)
                     \/ Mentions(cH, AssertFail))
       /\ funs = LoadedFuns(sA, FALSE, sB, FALSE, hasAF)
       /\ calls = [f \in {"A", "B", "h"} |->
                     IF f = "A" THEN cA ELSE IF f = "B" THEN cB ELSE cH]
  /\ \E present \in BOOLEAN, list \in SeqsUpTo(Cands, MaxCands) :
       /\ present \/ list = <<>>
       /\ initFuns = [present |-> present, list |-> list]
  /\ \E init \in StateInits : globals = LoadedGlobals(<<init>>)
  /\ InitRest

\* runs over signatures and state variables
InitHarness ==
  /\ \E sA \in SeqsUpTo(ParamChoices, MaxParams), vaA \in BOOLEAN :
       funs = LoadedFuns(sA, vaA, <<>>, FALSE, TRUE)
  /\ calls = [f \in {"A", "B", "h"} |->
                IF f = "A" THEN <<AssertFail>> ELSE IF f = "B" THEN <<"h">>
                ELSE <<AssertFail>>]
  /\ initFuns = [present |-> TRUE, list |-> <<"B", "A">>]
  /\ \E n \in 0..MaxStateVars : globals = LoadedGlobals([k \in 1..n |-> 7])
  /\ InitRest

----------------------------------------------------------------------------
(* Kleerer::run *)

\* CG.callees(F): the call sites of F
callees(F) ==
  UNION {{<<f, k>> : k \in {e \in 1..Len(calls[f]) : calls[f][e] = F}} :
           f \in DOMAIN calls}

\* an inner loop that also follows the callees' own calls
CallsAssertFailTransitively(F) ==
  \E k \in 1..Len(calls[F]) :
    \/ calls[F][k] = AssertFail
    \/ /\ calls[F][k] \in DOMAIN calls
       /\ \E m \in 1..Len(calls[calls[F][k]]) : calls[calls[F][k]][m] = AssertFail

\* the inner loop of run: some callee of F is __assert_fail
CallsAssertFail(F) == \E k \in 1..Len(calls[F]) : calls[F][k] = AssertFail

\* the loop position after an iteration: "if (done) break"
NextPos(d) == IF d THEN Len(initFuns.list) + 1 ELSE i + 1

\* a run that fetches the list of initial functions first
EntryOutcomeListFirst ==
  IF ~initFuns.present THEN "aborted"
  ELSE IF getFunction(funs, AssertFail) = {} THEN "returned"
  ELSE IF Cardinality(callees(AssertFail)) = 0 THEN "returned"
  ELSE "loop"

\* where run is after the lines before its loop: the two early returns,
\* then the assert on getInitFuns
EntryOutcome ==
  IF getFunction(funs, AssertFail) = {} THEN "returned"
  ELSE IF Cardinality(callees(AssertFail)) = 0 THEN "returned"
  ELSE IF ~initFuns.present THEN "aborted"
  ELSE "loop"

\* run, up to its loop
RunEntry ==
  /\ pc = "start"
  /\ pc' = EntryOutcome
  /\ i' = IF pc' = "loop" THEN 1 ELSE i
  /\ UNCHANGED <<funs, globals, calls, initFuns, done, loaded, invoked, written, errs, exec>>

\* an iteration on a function with no call to __assert_fail
IterateSkip ==
  /\ pc = "loop"
  /\ i <= Len(initFuns.list)
  /\ ~CallsAssertFail(initFuns.list[i])
  /\ i' = NextPos(done)
  /\ UNCHANGED <<funs, globals, calls, initFuns, pc, done, loaded, invoked, written, errs, exec>>

\* an iteration on a function that calls __assert_fail: writeMain
IterateWrite(ioOk, verifyOk) ==
  /\ pc = "loop"
  /\ i <= Len(initFuns.list)
  /\ CallsAssertFail(initFuns.list[i])
  /\ LET r == writeMain(initFuns.list[i], i, funs, globals, done, ioOk, verifyOk)
     IN  /\ funs' = r.funs
         /\ globals' = r.globals
         /\ written' = written \o r.written
         /\ errs' = errs \o r.errs
         /\ done' = r.done
         /\ pc' = IF r.abort THEN "aborted" ELSE "loop"
         /\ i' = IF r.abort THEN i ELSE NextPos(r.done)
  /\ invoked' = Append(invoked, [idx |-> i, cand |-> initFuns.list[i]])
  /\ UNCHANGED <<calls, initFuns, loaded, exec>>

\* the end of the loop: return false
RunExit ==
  /\ pc = "loop"
  /\ i > Len(initFuns.list)
  /\ pc' = "returned"
  /\ UNCHANGED <<funs, globals, calls, initFuns, i, done, loaded, invoked, written, errs, exec>>

\* the symbolic-execution engine runs a written harness, once the pass is
\* over; the candidate leaves the state variables at post.  exec keeps one
\* execution: the executions are independent of each other.
RunHarness(a, post) ==
  /\ pc \in {"returned", "aborted"}
  /\ exec = NoExec
  /\ exec' = Execute(a, written[a], post)
  /\ UNCHANGED <<funs, globals, calls, initFuns, pc, i, done, loaded, invoked,
                 written, errs>>

Next ==
  \/ RunEntry
  \/ IterateSkip
  \/ \E ioOk \in BOOLEAN, verifyOk \in BOOLEAN : IterateWrite(ioOk, verifyOk)
  \/ RunExit
  \/ \E a \in 1..Len(written) :
       \E post \in [StateVarNames(written[a].globals) -> PostVals] :
         RunHarness(a, post)

Spec == Init /\ [][Next]_vars
SpecHarness == InitHarness /\ [][Next]_vars

----------------------------------------------------------------------------
(* Properties *)

List == initFuns.list
Positions == 1..Len(List)
\* position k of the list names a function with a direct edge to __assert_fail
Direct(k) == \E e \in 1..Len(calls[List[k]]) : calls[List[k]][e] = AssertFail
\* the loop is past position k
Past(k) == (pc = "loop" /\ i > k) \/ (pc = "returned" /\ i > 0)
InvokedAt(k) == {m \in 1..Len(invoked) : invoked[m].idx = k}
WrittenAt(k) == {j \in 1..Len(written) : written[j].idx = k}
Reported(k, msg) == \E e \in 1..Len(errs) : errs[e].idx = k /\ errs[e].msg = msg
IsScaffolding(f) == f.kind \in {"entry", "primitive"}

\* C1 as stated: with the list [A, B], both calling __assert_fail, once A's
\* artifact is written the loop stops: writeMain is not called for B and
\* nothing but A's artifact is written.
C1_LoopStopsAfterFirst ==
  (/\ List = <<"A", "B">>
   /\ Direct(1) /\ Direct(2)
   /\ WrittenAt(1) # {})
  => (InvokedAt(2) = {} /\ \A j \in 1..Len(written) : written[j].idx = 1)

\* C1 amended: done is never set, so the loop does not stop after a written
\* artifact: once the loop is past a position, writeMain has been called for
\* every position up to it whose function calls __assert_fail, and each of
\* those calls wrote its artifact or reported that it cannot write.
C1_LoopContinues ==
  /\ done = FALSE
  /\ \A k \in Positions :
       (Direct(k) /\ Past(k))
       => /\ InvokedAt(k) # {}
          /\ WrittenAt(k) # {} \/ Reported(k, "cannot write")

C1_Witness ==
  /\ List = <<"A", "B">>
  /\ pc = "returned"
  /\ WrittenAt(1) # {} /\ WrittenAt(2) # {}
  /\ written[2].cand = "B"

\* C2 as stated: when run returns, every function of the list that calls
\* __assert_fail has exactly one artifact, named <module-id>.main.<name>.o.
C2_OneArtifactEach ==
  pc = "returned"
  => \A k \in Positions :
       Direct(k)
       => /\ Cardinality({j \in 1..Len(written) : written[j].cand = List[k]}) = 1
          /\ \A j \in 1..Len(written) :
               written[j].cand = List[k]
               => written[j].name = ModuleId \o ".main." \o List[k] \o ".o"

\* C2 amended: when run returns, every position of the list whose function
\* calls __assert_fail has had exactly one call of writeMain, which wrote
\* exactly one artifact, named <module-id>.main.<name>.o, if the output file
\* could be opened, and wrote none and reported "cannot write" if not.
C2_OneArtifactPerOpenedFile ==
  pc = "returned"
  => \A k \in Positions :
       Direct(k)
       => /\ Cardinality(InvokedAt(k)) = 1
          /\ \/ /\ Cardinality(WrittenAt(k)) = 1
                /\ ~Reported(k, "cannot write")
             \/ /\ WrittenAt(k) = {}
                /\ Reported(k, "cannot write")
          /\ \A j \in WrittenAt(k) :
               /\ written[j].cand = List[k]
               /\ written[j].name = ModuleId \o ".main." \o List[k] \o ".o"

C2_Witness ==
  /\ pc = "returned"
  /\ Len(List) = 2 /\ Direct(1) /\ Direct(2)
  /\ WrittenAt(1) = {} /\ Reported(1, "cannot write")
  /\ Cardinality(WrittenAt(2)) = 1

\* the module as loaded has no __assert_fail, or no call site of it
NothingToFind ==
  \/ \A k \in 1..Len(loaded.funs) : loaded.funs[k].name # AssertFail
  \/ \A f \in DOMAIN calls : \A e \in 1..Len(calls[f]) : calls[f][e] # AssertFail

\* C3: if __assert_fail is absent or has no call site, run returns having
\* written nothing and with the functions, globals and initializers as they
\* were loaded, whether or not the list of initial functions exists.
C3_NoOp ==
  NothingToFind
  => /\ pc \in {"start", "returned"}
     /\ written = <<>>
     /\ invoked = <<>>
     /\ funs = loaded.funs
     /\ globals = loaded.globals

C3_Witness ==
  /\ pc = "returned"
  /\ getFunction(funs, AssertFail) # {}
  /\ NothingToFind
  /\ ~initFuns.present

\* C9: writeMain is called, and an artifact written, only for a function
\* whose own calls include __assert_fail; a function that reaches it only
\* through a callee gets neither; and writeMain is called at most once for
\* each position of the list, however many of its edges lead to __assert_fail.
C9_DirectEdgeOnly ==
  /\ \A m \in 1..Len(invoked) :
       /\ invoked[m].cand = List[invoked[m].idx]
       /\ Direct(invoked[m].idx)
  /\ \A j \in 1..Len(written) :
       /\ written[j].cand = List[written[j].idx]
       /\ Direct(written[j].idx)
  /\ \A k \in Positions : Cardinality(InvokedAt(k)) <= 1

C9_Witness ==
  /\ pc = "returned"
  /\ Len(List) = 2
  /\ calls[List[1]] = <<"h">> /\ calls["h"] = <<AssertFail>>
  /\ calls[List[2]] = <<AssertFail, AssertFail>>
  /\ Len(invoked) = 1 /\ invoked[1].idx = 2
  /\ Len(written) = 1

\* the harness function that the call of writeMain at position k created
HarnessesIn(fs, k) == {m \in 1..Len(fs) : fs[m].kind = "entry" /\ fs[m].owner = k}
Indexes(block, op, who) ==
  {m \in 1..Len(block) : block[m].op = op /\ block[m].who = who}

\* C4 as stated: whether a synthesis wrote its artifact or could not open
\* its file, the module that the next synthesis starts from holds no harness
\* function and no klee_make_symbolic declaration of an earlier synthesis,
\* and neither does any artifact.
C4_NoLeftoverScaffolding ==
  /\ (pc = "loop" /\ i \in Positions /\ Direct(i))
     => \A m \in 1..Len(funs) : ~IsScaffolding(funs[m])
  /\ \A j \in 1..Len(written) :
       \A m \in 1..Len(written[j].funs) :
         IsScaffolding(written[j].funs[m])
         => written[j].funs[m].owner = written[j].idx

\* C5: in every artifact written, every __ai_state_ global has the initializer
\* zero, and the entry block of the artifact's harness marks the variable
\* symbolic, stores zero to it with a volatile store right after the mark,
\* and only then calls the candidate; a run of the harness finds every state
\* variable concretely zero at that call, whatever its initializer was when
\* the module was loaded and whatever was synthesized before.
C5_StateZeroAtCall ==
  /\ \A j \in 1..Len(written) :
       LET art == written[j]
           entry == HarnessOf(art).entry
       IN  /\ StateVarNames(art.globals) = StateVarNames(loaded.globals)
           /\ \A v \in StateVarNames(art.globals) :
                /\ GlobalNamed(art.globals, v).hasInit
                /\ GlobalNamed(art.globals, v).init = 0
                /\ \E mk \in 1..Len(entry) :
                     /\ Indexes(entry, "mark", v) = {mk}
                     /\ Indexes(entry, "store volatile", v) = {mk + 1}
                     /\ entry[mk + 1].n = 0
                     /\ \A c \in Indexes(entry, "call", art.cand) : c > mk + 1
           /\ Cardinality(Indexes(entry, "call", art.cand)) = 1
  /\ exec.art # 0
     => /\ DOMAIN exec.atCall = StateVarNames(loaded.globals)
        /\ \A v \in DOMAIN exec.atCall : exec.atCall[v] = 0
        /\ exec.symbAtCall = {}

C5_Witness ==
  /\ exec.art = 2
  /\ \E v \in StateVarNames(loaded.globals) :
       /\ GlobalNamed(loaded.globals, v).init = 7
       /\ exec.atCall[v] = 0
  /\ Reported(1, "written")

\* C8 as stated: when the verifier rejects the module built for a candidate,
\* this is reported, no artifact is written for the candidate, and the run
\* goes on to the rest of the list.
C8_RunContinuesAfterRejection ==
  \A k \in Positions :
    Reported(k, "broken module")
    => /\ WrittenAt(k) = {}
       /\ pc \in {"loop", "returned"}

\* the size in bytes of what parameter q points to
PointeeSize(q) == getTypeSize(ElementType(q.ty))
InsOf(block, op, k) == {m \in 1..Len(block) : block[m].op = op /\ block[m].arg = k}

\* C6 as stated: for every pointer parameter, with s the size of what it
\* points to, the harness allocates ArrSize * s bytes, marks ArrSize * s
\* bytes symbolic and passes the buffer's address plus GepIndex * s bytes.
C6_MiddleElementPassed ==
  \A j \in 1..Len(written) :
    LET art == written[j]
        entry == HarnessOf(art).entry
        params == FunNamed(art.funs, art.cand).params
    IN  \A k \in 1..Len(params) :
          IsPointerTy(params[k].ty)
          => /\ \E m \in InsOf(entry, "malloc", k) :
                  entry[m].n = ArrSize * PointeeSize(params[k])
             /\ \E m \in InsOf(entry, "mark", k) :
                  entry[m].n = ArrSize * PointeeSize(params[k])
             /\ \E m \in InsOf(entry, "gep", k) :
                  entry[m].n = GepIndex * PointeeSize(params[k])

\* function f has a parameter that is neither a pointer nor an integer
HasOtherParam(f) ==
  \E k \in 1..Len(f.params) : ~IsPointerTy(f.params[k].ty) /\ ~IsIntegerTy(f.params[k].ty)

\* C7: when writeMain is called for a function with a parameter that is
\* neither a pointer nor an integer, variadic or not, the argument list built
\* is shorter than the parameter list, check fails, no call of the function
\* is put in the harness and no artifact is written for it.
C7_OtherParamFailsCheck ==
  \A m \in 1..Len(invoked) :
    LET F == FunNamed(funs, invoked[m].cand)
    IN  HasOtherParam(F)
        => /\ pc = "aborted"
           /\ WrittenAt(invoked[m].idx) = {}
           /\ \A h \in HarnessesIn(funs, invoked[m].idx) :
                /\ Len(funs[h].args) < Len(F.params)
                /\ Indexes(funs[h].entry, "call", F.name) = {}

C7_Witness ==
  /\ Len(invoked) = 1
  /\ pc = "aborted"
  /\ LET F == FunNamed(funs, invoked[1].cand)
     IN  /\ F.varArg
         /\ Len(F.params) = 2
         /\ F.params[1].ty = "float"
         /\ IsPointerTy(F.params[2].ty)
         /\ \E h \in HarnessesIn(funs, invoked[1].idx) : Len(funs[h].args) = 1

\* the sum of the values f gives to the names in S
RECURSIVE Total(_, _)
Total(f, S) ==
  IF S = {} THEN 0
  ELSE LET v == CHOOSE x \in S : TRUE IN f[v] + Total(f, S \ {v})

\* C10 as stated: the harness returns 0 only if every state variable is zero
\* after the candidate returns.
C10_SuccessOnlyIfAllZero ==
  exec.outcome = "return 0" => \A v \in DOMAIN exec.post : exec.post[v] = 0

\* C10 amended: the harness returns 0 exactly when the sum modulo 2^32 of the
\* state variables after the call is zero, and calls __assert_fail
\* otherwise: it returns 0 when all of them are zero, fails when exactly one
\* is nonzero, and returns 0 as well when nonzero values cancel (1 and -1).
\* The values here are -1, 0 and 1, whose sum is zero modulo 2^32 exactly
\* when it is zero.
C10_SuccessIffSumZero ==
  exec.art # 0
  => /\ exec.outcome \in {"return 0", AssertFail}
     /\ exec.outcome = "return 0" <=> Total(exec.post, DOMAIN exec.post) = 0

C10_Witness ==
  /\ exec.outcome = "return 0"
  /\ \E v, w \in DOMAIN exec.post : exec.post[v] = 1 /\ exec.post[w] = -1

====
